---- MODULE Spec2Model ----
(***************************************************************************)
(* Model of app.js: the caret-delimited text to workbook converter and the *)
(* /tmp/output directory through which converted files are handed out.     *)
(*                                                                         *)
(* Strings the code takes apart (file names, file text) are sequences of   *)
(* one-character strings.  Node runs one callback at a time, so each       *)
(* synchronous handler is one action; res.download and the archiver are    *)
(* asynchronous and are split at their I/O callbacks.                      *)
(***************************************************************************)
EXTENDS Integers, Sequences, FiniteSets, TLC

VARIABLES
    store,       \* the entries of outputDir: name -> absent | dir | file
    deliveries,  \* history: completed downloads of a name since it was last written
    gpc,         \* GET /output/:filename requests: position of each
    gname,       \* ... req.params.filename
    gresp,       \* ... what the caller has been answered
    apc,         \* GET /download-all request: position
    afiles,      \* ... files (= filesToCleanup), in readdir order
    apos,        \* ... how many of files the archiver has processed
    archive,     \* ... entries appended to the ZIP so far
    aresp,       \* ... what the caller has been answered
    aput,        \* history: names written since files was read
    sreq,        \* the last request answered in one turn (upload, cleanup)
    sresp,       \* ... and its response
    ptext,       \* conversion alone: the text of the buffer
    pgrid,       \* conversion alone: paddedRows
    ppc,         \* conversion alone: position
    nname,       \* file name alone: file.originalname
    nstored,     \* file name alone: outputFilename
    npc          \* file name alone: position

vars == <<store, deliveries, gpc, gname, gresp, apc, afiles, apos,
          archive, aresp, aput, sreq, sresp, ptext, pgrid, ppc,
          nname, nstored, npc>>

storeVars == <<store, deliveries>>
getVars == <<gpc, gname, gresp>>
archVars == <<apc, afiles, apos, archive, aresp>>
syncVars == <<sreq, sresp>>
parseVars == <<ptext, pgrid, ppc>>
nameVars == <<nname, nstored, npc>>

----------------------------------------------------------------------------
(* Bounds *)

NumGets == 2          \* concurrent GET /output/:filename requests
MaxBatch == 3         \* files per upload
MaxWriteBatch == 2    \* files per upload when writes may be cut short
MaxDirs == 1          \* entries of outputDir that are not regular files
MaxTextLen == 4       \* characters of a buffer when the conversion is checked alone
MaxNameLen == 4       \* characters of a file name when the naming is checked alone

----------------------------------------------------------------------------
(* Sequences *)

Range(s) == {s[i] : i \in 1..Len(s)}

SeqsUpTo(S, n) == UNION {[1..k -> S] : k \in 0..n}

Perms(S) == {s \in [1..Cardinality(S) -> S] : Range(s) = S}

MaxOf(S) == CHOOSE m \in S : \A x \in S : x <= m

----------------------------------------------------------------------------
(* tdsToExcel: the conversion *)

Chars == {"a", "^", " ", "\n"}

IsSpace(c) == c = " " \/ c = "\n"

\* String.prototype.split(d): the pieces between the occurrences of d
RECURSIVE Split(_, _)
Split(s, d) ==
    IF \A i \in 1..Len(s) : s[i] # d
    THEN <<s>>
    ELSE LET k == CHOOSE i \in 1..Len(s) :
                      s[i] = d /\ \A j \in 1..(i - 1) : s[j] # d
         IN  <<SubSeq(s, 1, k - 1)>> \o Split(SubSeq(s, k + 1, Len(s)), d)

\* String.prototype.trim(): without leading and trailing white space
Trim(s) ==
    LET keep == {i \in 1..Len(s) : ~IsSpace(s[i])}
    IN  IF keep = {} THEN <<>>
        ELSE SubSeq(s, CHOOSE i \in keep : \A j \in keep : i <= j,
                       CHOOSE i \in keep : \A j \in keep : j <= i)

\* a bug: the empty line after a final newline is dropped
ParseRowsNoLast(data) ==
    LET all == Split(data, "\n")
        lines == IF Len(all) > 1 /\ all[Len(all)] = <<>>
                 THEN SubSeq(all, 1, Len(all) - 1) ELSE all
    IN  [i \in 1..Len(lines) |-> Split(Trim(lines[i]), "^")]

\* lines.map(line => line.trim().split('^'))
ParseRows(data) ==
    LET lines == Split(data, "\n")
    IN  [i \in 1..Len(lines) |-> Split(Trim(lines[i]), "^")]

\* a bug: rows are returned as parsed, not padded
PadRowsRagged(rows) == rows

\* rows.map(row => { while (row.length < maxLen) row.push(''); return row; })
PadRows(rows) ==
    LET maxLen == MaxOf({Len(rows[i]) : i \in 1..Len(rows)})
    IN  [i \in 1..Len(rows) |->
            rows[i] \o [j \in 1..(maxLen - Len(rows[i])) |-> <<>>]]

\* the sheet tdsToExcel writes for a buffer
PaddedRows(data) == PadRows(ParseRows(data))

----------------------------------------------------------------------------
(* File names *)

XlsxExt == <<".", "x", "l", "s", "x">>

\* a bug: the first '.' is taken, not the last
IndexOf(s, c) ==
    LET at == {i \in 1..Len(s) : s[i] = c}
    IN  IF at = {} THEN -1 ELSE (CHOOSE i \in at : \A j \in at : i <= j) - 1

\* file.originalname.lastIndexOf('.'), 0-based, -1 when there is none
LastIndexOf(s, c) ==
    LET at == {i \in 1..Len(s) : s[i] = c}
    IN  IF at = {} THEN -1 ELSE MaxOf(at) - 1

\* outputFilename
OutputFilename(originalname) ==
    IF "." \in Range(originalname)
    THEN SubSeq(originalname, 1, LastIndexOf(originalname, ".")) \o XlsxExt
    ELSE originalname \o XlsxExt

\* the files that are uploaded: two with the same output name and different
\* text, one with another output name
Files ==
    {[originalname |-> <<"a", ".", "t">>,
      buffer |-> <<"a", "^", "b", "\n", "c">>],
     [originalname |-> <<"a">>, buffer |-> <<"a">>],
     [originalname |-> <<"b", ".", "t">>,
      buffer |-> <<"a", "^", "b", "\n", "c">>]}

OrigNames == {file.originalname : file \in Files}

Names == {OutputFilename(o) : o \in OrigNames}

Texts == {file.buffer : file \in Files}

\* the sheets of the buffers that are uploaded, computed once
Sheets == [data \in Texts |-> PaddedRows(data)]

----------------------------------------------------------------------------
(* outputDir *)

Absent == [kind |-> "absent"]
Dir == [kind |-> "dir"]
File(data) == [kind |-> "file", data |-> data]

IsFile(e) == e.kind = "file"

\* fs.existsSync(path.join(outputDir, name))
ExistsSync(st, name) == st[name] # Absent

\* the names fs.readdirSync(outputDir) returns
Listing(st) == {n \in Names : st[n] # Absent}

\* fs.readdirSync(outputDir): the order of the names is the file system's
ReaddirSync(st) == Perms(Listing(st))

\* fs.unlinkSync: removes a regular file; throws on a missing entry (ENOENT)
\* and on a directory (EISDIR), leaving the directory as it was
UnlinkThrows(st, name) == ~IsFile(st[name])
UnlinkSync(st, name) ==
    IF IsFile(st[name]) THEN [st EXCEPT ![name] = Absent] ELSE st

\* XLSX.writeFile(workbook, outputFile) is fs.writeFileSync: it opens the
\* path for writing, which creates or empties the file, then writes the
\* bytes.  It throws at the open when the path is a directory (EISDIR),
\* leaving it as it was; it throws at the write when the disk is full
\* (ENOSPC), leaving the file that was opened with part of the bytes.
WriteOutcomes == {"ok", "ENOSPC"}

\* what a file cut short holds: some of the bytes, and no workbook
Torn == <<<<>>>>

WriteThrows(st, name, io) == st[name] = Dir \/ io # "ok"
WriteFile(st, name, data, io) ==
    IF st[name] = Dir THEN st
    ELSE IF io = "ok" THEN [st EXCEPT ![name] = File(data)]
    ELSE [st EXCEPT ![name] = File(Torn)]

----------------------------------------------------------------------------
(* POST /upload *)

\* tdsToExcel(buffer, outputFile): true and the sheet written, or false when
\* anything in it threw
TdsToExcel(st, buffer, outputFile, io) ==
    [success |-> ~WriteThrows(st, outputFile, io),
     store |-> WriteFile(st, outputFile, Sheets[buffer], io)]

\* the entry of results for one file (tdsToExcel catches what it throws, so
\* the catch around it is never entered)
ResultOf(file, success) ==
    IF success
    THEN [originalName |-> file.originalname,
          convertedName |-> OutputFilename(file.originalname),
          status |-> "success"]
    ELSE [originalName |-> file.originalname, status |-> "error"]

\* a bug: the first file that fails ends the loop
RECURSIVE ForEachFileAborting(_, _, _, _)
ForEachFileAborting(st, files, io, results) ==
    IF files = <<>>
    THEN [store |-> st, results |-> results]
    ELSE LET r == TdsToExcel(st, Head(files).buffer,
                             OutputFilename(Head(files).originalname),
                             Head(io))
         IN  IF r.success
             THEN ForEachFileAborting(r.store, Tail(files), Tail(io),
                      Append(results, ResultOf(Head(files), TRUE)))
             ELSE [store |-> r.store,
                   results |-> Append(results, ResultOf(Head(files), FALSE))]

\* req.files.forEach(file => ...): the directory and results after the
\* loop; io[i] is what the disk does to the write of files[i]
RECURSIVE ForEachFile(_, _, _, _)
ForEachFile(st, files, io, results) ==
    IF files = <<>>
    THEN [store |-> st, results |-> results]
    ELSE LET r == TdsToExcel(st, Head(files).buffer,
                             OutputFilename(Head(files).originalname),
                             Head(io))
         IN  ForEachFile(r.store, Tail(files), Tail(io),
                         Append(results, ResultOf(Head(files), r.success)))

NoResponse == [status |-> 0]

\* a bug: a request without files is processed like any other
NoFilesNever(files) == FALSE

\* !req.files || req.files.length === 0
NoFiles(files) == files = <<>>

\* the handler: 400 without files, else one result per file
Upload(files, io) ==
    /\ sreq' = [op |-> "upload", files |-> files, io |-> io]
    /\ IF NoFiles(files)
       THEN /\ sresp' = [status |-> 400]
            /\ UNCHANGED <<storeVars, aput>>
       ELSE LET out == ForEachFile(store, files, io, <<>>)
                written == {OutputFilename(files[i].originalname) :
                              i \in 1..Len(files)} \ {n \in Names :
                                                        store[n] = Dir}
            IN  /\ store' = out.store
                /\ deliveries' = [n \in Names |->
                                    IF n \in written THEN 0 ELSE deliveries[n]]
                /\ aput' = IF apc = "building" THEN aput \cup written
                                              ELSE aput
                /\ sresp' = [status |-> 200, results |-> out.results]
    /\ UNCHANGED <<getVars, archVars, parseVars, nameVars>>

----------------------------------------------------------------------------
(* GET /output/:filename *)

Gets == 1..NumGets

GetEnded(pc) == pc \in {"idle", "notfound", "done", "aborted", "failed"}

\* the handler: 404 when the file does not exist, else res.download starts
GetRequest(g, filename) ==
    /\ GetEnded(gpc[g])
    /\ \A h \in Gets : h < g => ~GetEnded(gpc[h])
    /\ gname' = [gname EXCEPT ![g] = filename]
    /\ IF ~ExistsSync(store, filename)
       THEN /\ gpc' = [gpc EXCEPT ![g] = "notfound"]
            /\ gresp' = [gresp EXCEPT ![g] = [status |-> 404, body |-> <<>>]]
       ELSE /\ gpc' = [gpc EXCEPT ![g] = "sending"]
            /\ gresp' = [gresp EXCEPT ![g] = [status |-> 0, body |-> <<>>]]
    /\ UNCHANGED <<storeVars, archVars, aput, syncVars, parseVars, nameVars>>

\* res.download stats and opens the file in a later turn: the stream reads
\* the file that is there then, and keeps reading it if its name is unlinked
\* meanwhile; a file gone or not regular by then ends in the callback's err,
\* which the callback ignores, so nothing is answered
GetOpen(g) ==
    /\ gpc[g] = "sending"
    /\ IF IsFile(store[gname[g]])
       THEN /\ gpc' = [gpc EXCEPT ![g] = "streaming"]
            /\ gresp' = [gresp EXCEPT ![g] =
                            [status |-> 200, body |-> store[gname[g]].data]]
       ELSE /\ gpc' = [gpc EXCEPT ![g] = "failed"]
            /\ UNCHANGED gresp
    /\ UNCHANGED <<storeVars, gname, archVars, aput, syncVars, parseVars, nameVars>>

\* a bug: the file is kept after a download
FinishStoreKeep(st, name) == st

\* the callback without err: fs.unlinkSync(filePath) inside try/catch
FinishStore(st, name) == UnlinkSync(st, name)

\* the transfer completed: the callback runs with no err
GetFinish(g) ==
    /\ gpc[g] = "streaming"
    /\ gpc' = [gpc EXCEPT ![g] = "done"]
    /\ store' = FinishStore(store, gname[g])
    /\ deliveries' = [deliveries EXCEPT ![gname[g]] = @ + 1]
    /\ UNCHANGED <<gname, gresp, archVars, aput, syncVars, parseVars, nameVars>>

\* a bug: the file is deleted whether or not the transfer failed
AbortStoreUnlink(st, name) == UnlinkSync(st, name)

\* the callback with err: nothing is done
AbortStore(st, name) == st

\* the transfer was interrupted: the callback runs with err
GetAbort(g) ==
    /\ gpc[g] = "streaming"
    /\ gpc' = [gpc EXCEPT ![g] = "aborted"]
    /\ store' = AbortStore(store, gname[g])
    /\ UNCHANGED <<deliveries, gname, gresp, archVars, aput, syncVars,
                   parseVars, nameVars>>

----------------------------------------------------------------------------
(* GET /download-all *)

ArchEnded(pc) == pc \in {"idle", "notfound", "done", "error"}

\* a bug: an empty directory is archived like any other
NothingToArchiveNever(st) == FALSE

\* files.length === 0
NothingToArchive(st) == Listing(st) = {}

\* the handler: 404 on an empty directory (outputDir itself exists since
\* start-up); else every name of files exists (nothing runs between
\* readdirSync and the existsSync of the loop), so it is handed to the
\* archiver and pushed on filesToCleanup
ArchRequest ==
    /\ ArchEnded(apc)
    /\ apos' = 0
    /\ archive' = <<>>
    /\ aput' = {}
    /\ IF NothingToArchive(store)
       THEN /\ apc' = "notfound"
            /\ afiles' = <<>>
            /\ aresp' = [status |-> 404]
       ELSE /\ apc' = "building"
            /\ afiles' \in ReaddirSync(store)
            /\ aresp' = NoResponse
    /\ UNCHANGED <<storeVars, getVars, syncVars, parseVars, nameVars>>

\* a bug: a file that is gone when the archiver reaches it is an error
MissingIsSkippedNever(code) == FALSE

\* archive.on('warning'): err.code === 'ENOENT' is logged, anything else thrown
MissingIsSkipped(code) == code = "ENOENT"

\* a bug: a file is deleted as soon as it is in the ZIP
IncludeStoreUnlink(st, file) == UnlinkSync(st, file)

\* archive.file(filePath, { name: file }): the archiver reads the path and
\* leaves it where it is
IncludeStore(st, file) == st

\* the archiver takes the next queued path, stats and reads it: a file or a
\* directory becomes an entry of the ZIP; a path that is gone raises the
\* ENOENT warning
ArchInclude ==
    /\ apc = "building"
    /\ apos < Len(afiles)
    /\ apos' = apos + 1
    /\ LET file == afiles[apos + 1]
       IN  /\ store' = IncludeStore(store, file)
           /\ IF ExistsSync(store, file)
              THEN /\ archive' = Append(archive,
                                        [name |-> file, entry |-> store[file]])
                   /\ aresp' = [status |-> 200]
                   /\ UNCHANGED apc
              ELSE /\ apc' = IF MissingIsSkipped("ENOENT")
                             THEN "building" ELSE "error"
                   /\ UNCHANGED <<archive, aresp>>
    /\ UNCHANGED <<afiles, aput, deliveries, getVars, syncVars, parseVars,
                   nameVars>>

\* a bug: the archived files are never deleted
CleanupEachNothing(st, files) == st

\* filesToCleanup.forEach: each fs.unlinkSync in its own try/catch
RECURSIVE CleanupEach(_, _)
CleanupEach(st, files) ==
    IF files = <<>> THEN st
    ELSE CleanupEach(UnlinkSync(st, Head(files)), Tail(files))

\* archive.finalize() resolves once every queued path was processed; its
\* then-callback deletes filesToCleanup in the same turn
ArchFinalize ==
    /\ apc = "building"
    /\ apos = Len(afiles)
    /\ apc' = "done"
    /\ aresp' = [status |-> 200]
    /\ store' = CleanupEach(store, afiles)
    /\ UNCHANGED <<deliveries, afiles, apos, archive, aput, getVars, syncVars,
                   parseVars, nameVars>>

\* archive.on('error'): a stream error ends the build; 500 is answered only
\* when no part of the ZIP was sent yet; finalize() never resolves
ArchError ==
    /\ apc = "building"
    /\ apc' = "error"
    /\ aresp' = IF aresp = NoResponse THEN [status |-> 500] ELSE aresp
    /\ UNCHANGED <<afiles, apos, archive, aput, storeVars, getVars, syncVars,
                   parseVars, nameVars>>

----------------------------------------------------------------------------
(* DELETE /cleanup *)

\* a bug: each unlink in its own try/catch, and no failure reported
RECURSIVE UnlinkEachTolerant(_, _)
UnlinkEachTolerant(st, files) ==
    IF files = <<>> THEN [store |-> st, threw |-> FALSE]
    ELSE UnlinkEachTolerant(UnlinkSync(st, Head(files)), Tail(files))

\* files.forEach(file => fs.unlinkSync(...)) inside one try: the first
\* unlink that throws ends the loop
RECURSIVE UnlinkEach(_, _)
UnlinkEach(st, files) ==
    IF files = <<>> THEN [store |-> st, threw |-> FALSE]
    ELSE IF UnlinkThrows(st, Head(files))
         THEN [store |-> st, threw |-> TRUE]
         ELSE UnlinkEach(UnlinkSync(st, Head(files)), Tail(files))

\* the handler: 200, or 500 when an unlink threw
Cleanup ==
    /\ sreq' = [op |-> "cleanup"]
    /\ \E files \in ReaddirSync(store) :
          LET out == UnlinkEach(store, files)
          IN  /\ store' = out.store
              /\ sresp' = IF out.threw THEN [status |-> 500]
                                       ELSE [status |-> 200]
    /\ UNCHANGED <<deliveries, getVars, archVars, aput, parseVars, nameVars>>

----------------------------------------------------------------------------
(* The conversion checked alone *)

\* a text of two lines and a final newline
ExampleText == <<"a", "^", "b", "^", "c", "\n", "d", "^", "e", "\n">>

\* the texts that are tried: every short text, and the example
ParseInputs == SeqsUpTo(Chars, MaxTextLen) \cup {ExampleText}

\* the parsing part of tdsToExcel on one buffer
Parse ==
    /\ ppc = "input"
    /\ ppc' = "parsed"
    /\ pgrid' = PaddedRows(ptext)
    /\ UNCHANGED <<ptext, storeVars, getVars, archVars, aput, syncVars,
                   nameVars>>

----------------------------------------------------------------------------
(* The file name checked alone *)

NameChars == {"a", "b", "."}

ReportTxt == <<"r", "e", "p", "o", "r", "t", ".", "t", "x", "t">>
Readme == <<"R", "E", "A", "D", "M", "E">>

\* the names that are tried: every short name, and two long ones
NameInputs == SeqsUpTo(NameChars, MaxNameLen) \cup {ReportTxt, Readme}

\* the naming part of the upload handler on one file
DeriveName ==
    /\ npc = "input"
    /\ npc' = "derived"
    /\ nstored' = OutputFilename(nname)
    /\ UNCHANGED <<nname, storeVars, getVars, archVars, aput, syncVars,
                   parseVars>>

----------------------------------------------------------------------------
(* Specifications *)

\* outputDir is created only when missing, so it may start with entries
\* that are not converted files: directories, here
InitStores ==
    {st \in [Names -> {Absent, Dir}] :
        Cardinality({n \in Names : st[n] = Dir}) <= MaxDirs}

InitRequests ==
    /\ deliveries = [n \in Names |-> 0]
    /\ gpc = [g \in Gets |-> "idle"]
    /\ gname = [g \in Gets |-> CHOOSE n \in Names : TRUE]
    /\ gresp = [g \in Gets |-> [status |-> 0, body |-> <<>>]]
    /\ apc = "idle"
    /\ afiles = <<>>
    /\ apos = 0
    /\ archive = <<>>
    /\ aresp = NoResponse
    /\ aput = {}
    /\ sreq = [op |-> "none"]
    /\ sresp = NoResponse

\* the server starts with no converted file and no request
Init ==
    /\ store \in InitStores
    /\ InitRequests
    /\ ptext = <<>>
    /\ pgrid = <<>>
    /\ ppc = "off"
    /\ nname = <<>>
    /\ nstored = <<>>
    /\ npc = "off"

\* the whole server
Next ==
    \/ \E files \in SeqsUpTo(Files, MaxBatch) :
          \E io \in [1..Len(files) -> WriteOutcomes] : Upload(files, io)
    \/ \E g \in Gets, filename \in Names : GetRequest(g, filename)
    \/ \E g \in Gets : GetOpen(g)
    \/ \E g \in Gets : GetFinish(g)
    \/ \E g \in Gets : GetAbort(g)
    \/ ArchRequest
    \/ ArchInclude
    \/ ArchFinalize
    \/ ArchError
    \/ Cleanup

Spec == Init /\ [][Next]_vars

\* single downloads racing with each other, with uploads and with cleanups;
\* an upload of several files changes outputDir as the uploads of its files
\* one after the other do, so one file per upload is enough here; the disk
\* has room (writes that are cut short are in NextWrite)
NextGet ==
    \/ \E file \in Files : Upload(<<file>>, <<"ok">>)
    \/ \E g \in Gets, filename \in Names : GetRequest(g, filename)
    \/ \E g \in Gets : GetOpen(g)
    \/ \E g \in Gets : GetFinish(g)
    \/ \E g \in Gets : GetAbort(g)
    \/ Cleanup

SpecGet == Init /\ [][NextGet]_vars

\* the ZIP download racing with uploads, one single download and cleanups,
\* on a disk with room
NextArch ==
    \/ \E file \in Files : Upload(<<file>>, <<"ok">>)
    \/ \E filename \in Names : GetRequest(1, filename)
    \/ GetOpen(1)
    \/ GetFinish(1)
    \/ GetAbort(1)
    \/ ArchRequest
    \/ ArchInclude
    \/ ArchFinalize
    \/ ArchError
    \/ Cleanup

SpecArch == Init /\ [][NextArch]_vars

\* the same, with every I/O completion that is due eventually delivered by
\* the event loop: a download that was started is opened, one that streams
\* completes or breaks, the archiver goes on to the next path, and a build
\* whose paths are all processed is finalized; requests arrive when callers
\* send them
SpecLive ==
    /\ Init
    /\ [][NextArch]_vars
    /\ WF_vars(GetOpen(1))
    /\ WF_vars(GetFinish(1) \/ GetAbort(1))
    /\ WF_vars(ArchInclude)
    /\ WF_vars(ArchFinalize)

\* the upload handler with whole batches on a disk with room, on every
\* directory that uploads and cleanups produce
NextBatch ==
    \/ \E files \in SeqsUpTo(Files, MaxBatch) :
          Upload(files, [i \in 1..Len(files) |-> "ok"])
    \/ Cleanup

SpecBatch == Init /\ [][NextBatch]_vars

\* the upload handler on a disk that may fill up during any write
NextWrite ==
    \/ \E files \in SeqsUpTo(Files, MaxWriteBatch) :
          \E io \in [1..Len(files) -> WriteOutcomes] : Upload(files, io)
    \/ Cleanup

SpecWrite == Init /\ [][NextWrite]_vars

\* the conversion alone, on every text of the bound
InitParse ==
    /\ store = [n \in Names |-> Absent]
    /\ InitRequests
    /\ ptext \in ParseInputs
    /\ pgrid = <<>>
    /\ ppc = "input"
    /\ nname = <<>>
    /\ nstored = <<>>
    /\ npc = "off"

NextParse == Parse

SpecParse == InitParse /\ [][NextParse]_vars

\* the naming alone, on every name that is tried
InitName ==
    /\ store \in InitStores
    /\ InitRequests
    /\ ptext = <<>>
    /\ pgrid = <<>>
    /\ ppc = "off"
    /\ nname \in NameInputs
    /\ nstored = <<>>
    /\ npc = "input"

NextName == DeriveName

SpecName == InitName /\ [][NextName]_vars

----------------------------------------------------------------------------
(* The file name: properties, checked under SpecName *)

DotsOf(name) == {i \in 1..Len(name) : name[i] = "."}

\* C11: the stored name is fixed by the original name: with a '.' in it, the
\* part before its last '.' followed by ".xlsx"; without, the whole name
\* followed by ".xlsx"; so report.txt gives report.xlsx and README gives
\* README.xlsx, whatever outputDir holds.
C11_StoredNameDerivation ==
    npc = "derived" =>
        /\ IF DotsOf(nname) # {}
           THEN \E k \in DotsOf(nname) :
                   /\ \A j \in DotsOf(nname) : j <= k
                   /\ Len(nstored) = k + 4
                   /\ \A i \in 1..(k - 1) : nstored[i] = nname[i]
                   /\ SubSeq(nstored, k, k + 4) = XlsxExt
           ELSE /\ Len(nstored) = Len(nname) + 5
                /\ SubSeq(nstored, 1, Len(nname)) = nname
                /\ SubSeq(nstored, Len(nname) + 1, Len(nname) + 5) = XlsxExt
        /\ nname = ReportTxt =>
              nstored = <<"r", "e", "p", "o", "r", "t", ".", "x", "l", "s", "x">>
        /\ nname = Readme =>
              nstored = <<"R", "E", "A", "D", "M", "E", ".", "x", "l", "s", "x">>

\* a name with two dots and something after the last was given its stored
\* name
C11_Witness ==
    /\ npc = "derived"
    /\ Cardinality(DotsOf(nname)) = 2
    /\ nname[Len(nname)] # "."
    /\ nname[1] # "."

----------------------------------------------------------------------------
(* The conversion: properties, checked under SpecParse *)

\* the raw lines of a text, read off the positions of its newlines
NewlinesOf(text) == {i \in 1..Len(text) : text[i] = "\n"}

RawLineCount(text) == Cardinality(NewlinesOf(text)) + 1

RawLine(text, k) ==
    LET nl == NewlinesOf(text)
        nth(m) == CHOOSE q \in nl : Cardinality({r \in nl : r < q}) = m - 1
        first == IF k = 1 THEN 1 ELSE nth(k - 1) + 1
        last == IF k = RawLineCount(text) THEN Len(text) ELSE nth(k) - 1
    IN  SubSeq(text, first, last)

\* the number of caret-separated cells of a raw line
CaretCells(line) == Cardinality({i \in 1..Len(line) : line[i] = "^"}) + 1

RECURSIVE Join(_, _)
Join(cells, d) ==
    IF Len(cells) = 0 THEN <<>>
    ELSE IF Len(cells) = 1 THEN cells[1]
    ELSE cells[1] \o <<d>> \o Join(Tail(cells), d)

\* C10: every row of the parsed grid has the same length, the largest
\* number of caret-separated cells of a raw line; a row starts with the
\* cells of its line, unchanged, and continues with empty strings only.
C10_RectangularGrid ==
    ppc = "parsed" =>
        LET n == RawLineCount(ptext)
            width == MaxOf({CaretCells(RawLine(ptext, k)) : k \in 1..n})
        IN  /\ Len(pgrid) = n
            /\ \A k \in 1..n :
                  LET own == CaretCells(RawLine(ptext, k))
                  IN  /\ Len(pgrid[k]) = width
                      /\ Join(SubSeq(pgrid[k], 1, own), "^")
                            = Trim(RawLine(ptext, k))
                      /\ \A j \in (own + 1)..width : pgrid[k][j] = <<>>

\* a parsed text whose lines differ in their number of cells
C10_Witness ==
    /\ ppc = "parsed"
    /\ \E k, m \in 1..RawLineCount(ptext) :
          CaretCells(RawLine(ptext, k)) + 2 <= CaretCells(RawLine(ptext, m))
    /\ \E k \in 1..Len(pgrid) : pgrid[k][Len(pgrid[k])] = <<>>

\* C17: the parsed grid has one row for each piece of the text between two
\* newlines, before the first and after the last, in the order of the text:
\* as many rows as newlines plus one, row k starting with the cells of piece
\* k; after a final newline the last row holds empty strings only; and the
\* example text gives the three rows a b c, d e "", "" "" "".
C17_RowPerLine ==
    ppc = "parsed" =>
        /\ Len(pgrid) = Cardinality(NewlinesOf(ptext)) + 1
        /\ \A k \in 1..Len(pgrid) :
              /\ Len(pgrid[k]) >= CaretCells(RawLine(ptext, k))
              /\ Join(SubSeq(pgrid[k], 1, CaretCells(RawLine(ptext, k))), "^")
                    = Trim(RawLine(ptext, k))
        /\ (ptext # <<>> /\ ptext[Len(ptext)] = "\n") =>
              \A j \in 1..Len(pgrid[Len(pgrid)]) :
                  pgrid[Len(pgrid)][j] = <<>>
        /\ ptext = ExampleText =>
              pgrid = << <<<<"a">>, <<"b">>, <<"c">>>>,
                         <<<<"d">>, <<"e">>, <<>>>>,
                         <<<<>>, <<>>, <<>>>> >>

\* the example text was parsed into three rows of three cells
C17_Witness ==
    /\ ppc = "parsed"
    /\ ptext = ExampleText
    /\ Len(pgrid) = 3
    /\ \A k \in 1..3 : Len(pgrid[k]) = 3

----------------------------------------------------------------------------
(* The upload and cleanup handlers: properties, checked under SpecBatch *)

C9_OneOutcomePerInput ==
    (sreq.op = "upload" /\ sreq.files # <<>>) =>
        /\ sresp.status = 200
        /\ Len(sresp.results) = Len(sreq.files)
        /\ \A i \in 1..Len(sreq.files) :
              LET file == sreq.files[i]
                  result == sresp.results[i]
                  outputFilename == OutputFilename(file.originalname)
              IN  /\ result.originalName = file.originalname
                  /\ result.status \in {"success", "error"}
                  /\ result.status = "error" <=>
                        (store[outputFilename] = Dir \/ sreq.io[i] # "ok")
                  /\ result.status = "success" =>
                        /\ result.convertedName = outputFilename
                        /\ IsFile(store[outputFilename])

\* the batch [A, B, C] with B failing
C9_Witness ==
    /\ sreq.op = "upload"
    /\ Len(sreq.files) = 3
    /\ sresp.status = 200
    /\ Len(sresp.results) = 3
    /\ sresp.results[1].status = "success"
    /\ sresp.results[2].status = "error"
    /\ sresp.results[3].status = "success"

\* C12: an upload without files is answered with an error for the whole
\* request, 400, that carries no list of results, and nothing in outputDir
\* is written or removed.
C12_EmptyBatchRejected ==
    [][Upload(<<>>, <<>>) =>
          /\ sresp'.status = 400
          /\ "results" \notin DOMAIN sresp'
          /\ store' = store
          /\ deliveries' = deliveries]_vars

\* an upload without files was rejected while outputDir held a file
C12_Witness ==
    /\ sreq = [op |-> "upload", files |-> <<>>, io |-> <<>>]
    /\ sresp = [status |-> 400]
    /\ \E n \in Names : IsFile(store[n])

----------------------------------------------------------------------------
(* Writes that fail: properties, checked under SpecWrite *)

\* the positions of an answered upload whose file was converted and stored
\* under the name n
SuccessesFor(n) ==
    {i \in 1..Len(sresp.results) :
        /\ sresp.results[i].status = "success"
        /\ sresp.results[i].convertedName = n}

\* C15: a file whose result is an error leaves outputDir as it was before
\* the file was processed; so an upload whose results are all errors leaves
\* outputDir as it was before the request: no file is new, none is changed.
C15_FailureLeavesStore ==
    [][(/\ sreq'.op = "upload"
        /\ sresp'.status = 200
        /\ \A i \in 1..Len(sresp'.results) :
              sresp'.results[i].status = "error") => store' = store]_vars

\* C16: when an upload is answered, every name under which at least one of
\* its files was stored holds the sheet of the last of those files, whatever
\* was there under that name before.
C16_LastWriteWins ==
    (sreq.op = "upload" /\ sresp.status = 200) =>
        \A n \in Names :
            SuccessesFor(n) # {} =>
                store[n] =
                    File(PaddedRows(sreq.files[MaxOf(SuccessesFor(n))].buffer))

----------------------------------------------------------------------------
(* Single downloads: properties, checked under SpecGet *)

OkBody(g) == [status |-> 200, body |-> gresp[g].body]

\* C1: a download that completes hands over the bytes and removes the file;
\* a request for a name downloaded since it was last written is answered
\* 404 with no body, and touches nothing.
C1_GetOnceThenNotFound ==
    [][\A g \in Gets :
        /\ (gpc[g] = "streaming" /\ gpc'[g] = "done") =>
              /\ gresp'[g] = OkBody(g)
              /\ gresp[g].body # <<>>
              /\ store'[gname[g]] = Absent
        /\ \A n \in Names :
              (GetRequest(g, n) /\ deliveries[n] >= 1) =>
                  /\ gpc'[g] = "notfound"
                  /\ gresp'[g] = [status |-> 404, body |-> <<>>]
                  /\ store' = store]_vars

\* a name was downloaded, and a later request for it was answered 404
C1_Witness ==
    \E g \in Gets :
        /\ gpc[g] = "notfound"
        /\ deliveries[gname[g]] >= 1
        /\ \E h \in Gets : gpc[h] = "done" /\ gname[h] = gname[g]

\* C2: a download that ends in an error, before or during the transfer,
\* deletes nothing; the file it was reading is still there with the same
\* content unless another request took it, and a new request for a file
\* that is there is not answered 404.
C2_FailedTransferKeepsFile ==
    [][\A g \in Gets :
        /\ (gpc[g] \in {"sending", "streaming"}
              /\ gpc'[g] \in {"failed", "aborted"}) => store' = store
        /\ \A n \in Names :
              (GetRequest(g, n) /\ IsFile(store[n])) => gpc'[g] = "sending"]_vars

\* a transfer was interrupted and the file is still there, as it was read
C2_Witness ==
    \E g \in Gets :
        /\ gpc[g] = "aborted"
        /\ store[gname[g]] = File(gresp[g].body)

\* C3: a file is handed over at most once between two writes of its name,
\* and no request is left without an answer because the file it asked for
\* was taken by a download that completed first.
C3_AtMostOnceDelivery ==
    /\ \A n \in Names : deliveries[n] <= 1
    /\ \A g \in Gets : gpc[g] = "failed" => deliveries[gname[g]] = 0

----------------------------------------------------------------------------
(* The ZIP download: properties, checked under SpecArch *)

ArchivedNames == {archive[i].name : i \in 1..Len(archive)}

\* the archiver processes the next path of files
Including == apc = "building" /\ apos' = apos + 1

\* archive.finalize() resolves
Finalizing == apc = "building" /\ apc' = "done"

\* C4: GET /download-all on an empty directory is answered 404, builds no
\* archive and leaves the directory as it is.
C4_EmptyStoreNotFound ==
    [][(ArchRequest /\ Listing(store) = {}) =>
          /\ apc' = "notfound"
          /\ aresp' = [status |-> 404]
          /\ archive' = <<>>
          /\ afiles' = <<>>
          /\ store' = store]_vars

\* the request was answered 404
C4_Witness == apc = "notfound" /\ aresp = [status |-> 404]

\* C5 as stated: on a non-empty directory the request starts an archive;
\* when it is finalized the archive holds every file that was listed when the
\* request was made, under its name, and none of them is left.
C5_ArchiveHoldsAllListed ==
    [][/\ (ArchRequest /\ Listing(store) # {}) => apc' = "building"
       /\ Finalizing =>
              /\ ArchivedNames = Range(afiles)
              /\ \A n \in ArchivedNames : ~IsFile(store'[n])]_vars

\* C5 as amended: on a non-empty directory the request is not answered 404
\* and an archive is built over the names listed at that time; a listed file
\* that is there when the archiver reaches it is appended under its name,
\* with the content it has then, and one that is gone is skipped; when the
\* archive is finalized, no listed file is left in the directory.
C5_ArchiveThenCleanup ==
    [][/\ (ArchRequest /\ Listing(store) # {}) =>
              /\ apc' = "building"
              /\ Range(afiles') = Listing(store)
              /\ archive' = <<>>
       /\ Including =>
              LET file == afiles[apos + 1]
              IN  /\ file \in Listing(store) =>
                        archive' = Append(archive,
                                          [name |-> file, entry |-> store[file]])
                  /\ file \notin Listing(store) => archive' = archive
       /\ Finalizing =>
              /\ apos = Len(afiles)
              /\ archive' = archive
              /\ aresp' = [status |-> 200]
              /\ \A n \in Range(afiles) : ~IsFile(store'[n])]_vars

\* an archive of two files was finalized and both are gone
C5_Witness ==
    /\ apc = "done"
    /\ Len(afiles) = 2
    /\ \A i \in 1..2 : archive[i].name = afiles[i] /\ IsFile(archive[i].entry)
    /\ Listing(store) = {}

\* C6: a file written after the request read the directory is not in the
\* archive and is not deleted when the archive is finalized.
C6_LatePutUntouched ==
    [][Finalizing =>
          \A n \in aput :
              IsFile(store[n]) =>
                  /\ [name |-> n, entry |-> store[n]] \notin Range(archive)
                  /\ store'[n] = store[n]]_vars

\* C13: a file leaves outputDir, other than by being overwritten, only in
\* one of three ways: a download that handed over this very content
\* completes, an archive that holds this very content is finalized, or
\* DELETE /cleanup runs; so a file written while a download of its name or an
\* archive listing its name is in flight is not deleted by that request.
C13_RemovedOnlyWhenDelivered ==
    [][\A n \in Names :
          (IsFile(store[n]) /\ store'[n] = Absent) =>
              \/ Cleanup
              \/ \E g \in Gets :
                     /\ gpc[g] = "streaming" /\ gpc'[g] = "done"
                     /\ gname[g] = n
                     /\ gresp[g].body = store[n].data
              \/ /\ Finalizing
                 /\ [name |-> n, entry |-> store[n]] \in Range(archive)]_vars

\* C14: GET /download-all deletes nothing when it lists the directory, while
\* the archiver works through the listed files, or when the build ends in an
\* error; the one step of the request that removes files is the one in which
\* the archive is finalized, after every listed file was processed, and it
\* removes listed files only.
C14_DeleteAfterFinalizeOnly ==
    [][/\ (ArchRequest \/ ArchInclude \/ ArchError) => store' = store
       /\ (archVars' # archVars /\ store' # store) =>
              /\ Finalizing
              /\ apos = Len(afiles)
              /\ \A i \in 1..Len(archive) : archive[i].name \in Range(afiles)
              /\ \A n \in Names :
                    store'[n] # store[n] =>
                        n \in Range(afiles) /\ store'[n] = Absent
       /\ (apc = "error" /\ ~ArchRequest) =>
              (apc' = "error" /\ archive' = archive)]_vars

\* a build that put a file into the ZIP ended in an error, and the file is
\* still in outputDir
C14_Witness ==
    /\ apc = "error"
    /\ Len(archive) >= 1
    /\ aput = {}
    /\ \A i \in 1..Len(archive) :
          IsFile(archive[i].entry) /\ store[archive[i].name] = archive[i].entry

\* C18: every request comes to an outcome for its caller: an upload and a
\* cleanup are answered by their handler; a download that was started ends
\* with the file handed over, with 404, or with the transfer broken off; an
\* archive request ends with the archive finalized, with 404, or with the
\* build ended by an error.
C18_EveryRequestEnds ==
    /\ [](sreq.op # "none" => sresp.status # 0)
    /\ \A g \in Gets :
          (gpc[g] = "sending") ~> (gpc[g] \in {"notfound", "done", "aborted"})
    /\ (apc = "building") ~> (apc \in {"notfound", "done", "error"})

\* C7: a listed file that is gone when the archiver reaches it is skipped:
\* the build goes on, the archive is finalized with the files that were
\* there, and the cleanup runs over every listed name.
C7_MissingFileSkipped ==
    [][/\ (Including /\ ~ExistsSync(store, afiles[apos + 1])) =>
              /\ apc' = "building"
              /\ archive' = archive
              /\ aresp' = aresp
       /\ Finalizing =>
              /\ archive' = archive
              /\ \A n \in Range(afiles) : ~IsFile(store'[n])]_vars

\* an archive was finalized with one listed file in it and one skipped,
\* and the file it holds was deleted
C7_Witness ==
    /\ apc = "done"
    /\ Len(afiles) = 2
    /\ Len(archive) = 1
    /\ aput = {}
    /\ ~IsFile(store[archive[1].name])

====
